---- MODULE Spec2Model ----
(***************************************************************************)
(* The poverty-incidence pipeline of src/poverty-incidence-processor.py:   *)
(*   load_csv -> reshape -> clean -> explore -> interpolate -> save_csv    *)
(* One action per method of PovertyIncidenceProcessor.  Tables are         *)
(* records [cols, rows]; a row is a function from columns to cells.        *)
(* Floating point values are modelled as exact rationals n/d (rounding of  *)
(* float64 arithmetic is not modelled).                                    *)
(***************************************************************************)
EXTENDS Integers, Sequences, FiniteSets, TLC

VARIABLES
    file,          \* the raw CSV on disk: the run's input, never written
    pc,            \* position in the method chain of __main__
    df,            \* self.df
    df_processed,  \* self.df_processed
    output,        \* the processed CSV on disk
    done,          \* the methods that have returned, in call order
    failedAt       \* the method whose exception ended the run

vars == <<file, pc, df, df_processed, output, done, failedAt>>

(***************************************************************************)
(* Bounds of the model.                                                    *)
(***************************************************************************)
\* the largest number of data rows of the wide source file
MaxRows == 2

(***************************************************************************)
(* Cells.  k is the Python/numpy type of the value: "str" (text s),        *)
(* "int" (n, d = 1), "float" (the rational n/d, d > 0, in lowest terms)    *)
(* and "nan" (the float NaN pandas uses for a missing value).              *)
(***************************************************************************)
Str(s) == [k |-> "str", n |-> 0, d |-> 1, s |-> s]
IntCell(n) == [k |-> "int", n |-> n, d |-> 1, s |-> <<>>]
NaN == [k |-> "nan", n |-> 0, d |-> 1, s |-> <<>>]

Abs(x) == IF x < 0 THEN -x ELSE x

RECURSIVE GCD(_, _)
GCD(a, b) == IF b = 0 THEN a ELSE GCD(b, a % b)

\* the float n/d, normalised
Float(n, d) ==
    LET g == GCD(Abs(n), Abs(d))
        sgn == IF d < 0 THEN -1 ELSE 1
    IN [k |-> "float", n |-> sgn * (n \div g), d |-> sgn * (d \div g), s |-> <<>>]

IsNum(c) == c.k \in {"int", "float"}
IsNull(c) == c.k = "nan"

\* int -> float64 upcast of one cell (numbers keep their value)
AsFloat(c) == IF c.k = "int" THEN Float(c.n, 1) ELSE c

(***************************************************************************)
(* Columns.  A year-tagged column "<Metric> (<Year>)" is the pair of its   *)
(* metric name and its year token; year = 0 is a name with no year token.  *)
(***************************************************************************)
Col(name, year) == [name |-> name, year |-> year]

Region == Col("Region", 0)
Province == Col("Province", 0)
Year == Col("Year", 0)

\* the years of the literal tokens '(2018)', '(2021)', '(2023)'
ObsYears == <<2018, 2021, 2023>>

\* the three metric columns of the whitelist
Metrics == <<"Annual Per Capita Poverty Threshold",
             "Poverty Incidence Among Families (%)",
             "Magnitude of Poor Families (1000)">>

Range(f) == {f[i] : i \in DOMAIN f}

MetricSet == Range(Metrics)
ObsYearSet == Range(ObsYears)

\* the columns of a well-formed wide source file
WideCols == {Region, Province} \cup {Col(m, y) : m \in MetricSet, y \in ObsYearSet}

\* range(2015, 2026)
GridYears == [i \in 1..11 |-> 2014 + i]

NoTable == [cols |-> {}, rows |-> <<>>]
(***************************************************************************)
(* Text.  A text is a sequence of one-character strings.                   *)
(***************************************************************************)
DigitChars == <<"0", "1", "2", "3", "4", "5", "6", "7", "8", "9">>

IsDigit(c) == c \in Range(DigitChars)

DigitVal(c) == (CHOOSE i \in 1..10 : DigitChars[i] = c) - 1

AllDigits(s) == Len(s) > 0 /\ \A i \in 1..Len(s) : IsDigit(s[i])

\* the value of a string of decimal digits
RECURSIVE DigitsValue(_)
DigitsValue(s) ==
    IF s = <<>> THEN 0
    ELSE 10 * DigitsValue(SubSeq(s, 1, Len(s) - 1)) + DigitVal(s[Len(s)])

\* the decimal digits of a natural number
RECURSIVE Digits(_)
Digits(n) ==
    IF n < 10 THEN <<DigitChars[n + 1]>>
    ELSE Digits(n \div 10) \o <<DigitChars[(n % 10) + 1]>>

RECURSIVE Pow10(_)
Pow10(e) == IF e = 0 THEN 1 ELSE 10 * Pow10(e - 1)

IsIntLiteral(s) == AllDigits(s)

\* the positions of a decimal point with digits on both sides
PointAt(s) ==
    {i \in 2..(Len(s) - 1) :
        /\ s[i] = "."
        /\ AllDigits(SubSeq(s, 1, i - 1))
        /\ AllDigits(SubSeq(s, i + 1, Len(s)))}

IsFloatLiteral(s) == PointAt(s) # {}

IsNumLiteral(s) == IsIntLiteral(s) \/ IsFloatLiteral(s)

NanText == <<"n", "a", "n">>

\* the number a numeric literal denotes: an int without a point, else a float
LiteralValue(s) ==
    IF IsIntLiteral(s) THEN IntCell(DigitsValue(s))
    ELSE LET i == CHOOSE j \in PointAt(s) : TRUE
             e == Len(s) - i
         IN Float(DigitsValue(SubSeq(s, 1, i - 1)) * Pow10(e)
                      + DigitsValue(SubSeq(s, i + 1, Len(s))), Pow10(e))

\* a to_numeric that takes only strings of digits for numbers
ToNumericDigitsOnly(s) == IF IsIntLiteral(s) THEN LiteralValue(s) ELSE NaN

\* one element of pd.to_numeric(..., errors='coerce'): a literal parses to its
\* number, 'nan' and every text that does not parse become NaN
ToNumericCell(s) == IF IsNumLiteral(s) THEN LiteralValue(s) ELSE NaN

\* a clean that leaves the ',' in the text
KeepCommas(s) == s

\* .str.replace(',', '')
RemoveCommas(s) == SelectSeq(s, LAMBDA c : c # ",")

\* one element of .astype(str): str() of the Python value.  Only the values that
\* can reach clean are covered: texts, ints, NaN and integer-valued floats
AsTypeStr(c) ==
    CASE c.k = "str" -> c.s
      [] c.k = "int" -> Digits(c.n)
      [] c.k = "nan" -> NanText
      [] c.k = "float" /\ c.d = 1 /\ c.n >= 0 -> Digits(c.n) \o <<".", "0">>

\* the dtype numpy gives a column of numbers: int64 when every cell is an int,
\* float64 as soon as one cell is a float or NaN
Unify(cells) ==
    IF \A i \in DOMAIN cells : cells[i].k = "int" THEN cells
    ELSE [i \in DOMAIN cells |-> AsFloat(cells[i])]

(***************************************************************************)
(* Tables.                                                                 *)
(***************************************************************************)
\* TLC evaluates the body of a function constructor again at every
\* application.  Strict(v) is v itself; comparing it makes TLC evaluate every
\* element once and keep the result
Strict(v) == IF v = v THEN v ELSE v

\* column c of table t as a sequence of cells
Column(t, c) == Strict([i \in 1..Len(t.rows) |-> t.rows[i][c]])

\* the table of n rows whose column c is byCol[c]
FromColumns(cols, n, byCol) ==
    LET cells == Strict(byCol)
    IN [cols |-> cols, rows |-> Strict([i \in 1..n |-> [c \in cols |-> cells[c][i]]])]

(***************************************************************************)
(* load_csv: pd.read_csv infers each column's dtype from its texts.  An    *)
(* empty field is NaN; a column whose other fields are all numeric         *)
(* literals is int64 (no empty field) or float64; any other column is      *)
(* object and keeps its texts.                                             *)
(***************************************************************************)
ReadColumn(texts) ==
    IF \A i \in DOMAIN texts : texts[i] = <<>> \/ IsNumLiteral(texts[i])
    THEN Unify([i \in DOMAIN texts |->
                  IF texts[i] = <<>> THEN NaN ELSE LiteralValue(texts[i])])
    ELSE [i \in DOMAIN texts |-> IF texts[i] = <<>> THEN NaN ELSE Str(texts[i])]

ReadCsv(f) ==
    FromColumns(f.cols, Len(f.rows),
                [c \in f.cols |-> ReadColumn([i \in 1..Len(f.rows) |-> f.rows[i][c]])])
(***************************************************************************)
(* reshape (wide to long).                                                 *)
(***************************************************************************)
\* the columns of the long table: the whitelist of lines 61-64
LongCols == {Region, Province, Year} \cup {Col(m, 0) : m \in MetricSet}

\* line 48, df[id_columns + year_cols], raises KeyError without both
\* identifier columns
SubsetRaises(t) == ~({Region, Province} \subseteq t.cols)

\* the columns of the concatenated table: the identifiers, Year, and each
\* metric some year's column was renamed to (lines 52-57)
ConcatCols(t) ==
    {Region, Province, Year} \cup {Col(c.name, 0) : c \in {x \in t.cols : x.year \in ObsYearSet}}

\* a reshape that raises as soon as one year-tagged column is absent
SelectRaisesAnyAbsent(t) ==
    \E m \in MetricSet : \E y \in ObsYearSet : Col(m, y) \notin t.cols

\* line 61, the whitelist selection, raises KeyError when a metric of the
\* whitelist is no column of the concatenated table
SelectRaises(t) == ~(LongCols \subseteq ConcatCols(t))

\* the dtype pd.concat gives a column: object (cells kept as they are) when a
\* block is object, else the common numeric dtype
ConcatColumn(cells) ==
    IF \E i \in DOMAIN cells : cells[i].k = "str" THEN cells ELSE Unify(cells)

\* the row reshape makes of source row r for year y: the identifiers, Year, and
\* each metric from its column '<metric> (<y>)', NaN when the file has no such
\* column (pd.concat fills the columns a block lacks)
SubsetRow(t, r, y) ==
    [c \in ConcatCols(t) |->
        IF c \in {Region, Province} THEN r[c]
        ELSE IF c = Year THEN IntCell(y)
        ELSE IF Col(c.name, y) \in t.cols THEN r[Col(c.name, y)]
        ELSE NaN]

\* a reshape whose loop leaves out the last year
ConcatRowsTwoYears(t) ==
    LET n == Len(t.rows)
    IN [j \in 1..(2 * n) |->
          SubsetRow(t, t.rows[((j - 1) % n) + 1], ObsYears[((j - 1) \div n) + 1])]

\* a reshape that emits the three years of a source row one after the other,
\* source row by source row
ConcatRowsBySourceRow(t) ==
    LET n == Len(t.rows)
    IN [j \in 1..(Len(ObsYears) * n) |->
          SubsetRow(t, t.rows[((j - 1) \div Len(ObsYears)) + 1],
                    ObsYears[((j - 1) % Len(ObsYears)) + 1])]

\* the per-year subsets appended in the order of [2018, 2021, 2023] and
\* concatenated with ignore_index=True
ConcatRows(t) ==
    LET n == Len(t.rows)
    IN [j \in 1..(Len(ObsYears) * n) |->
          SubsetRow(t, t.rows[((j - 1) % n) + 1], ObsYears[((j - 1) \div n) + 1])]

\* line 60: pd.concat(reshaped_data, ignore_index=True)
Concat(t) ==
    LET cat == [cols |-> ConcatCols(t), rows |-> ConcatRows(t)]
    IN FromColumns(cat.cols, Len(cat.rows),
                   [c \in cat.cols |-> ConcatColumn(Column(cat, c))])

\* lines 61-64: the six whitelisted columns
SelectLong(t) ==
    [cols |-> LongCols, rows |-> [i \in 1..Len(t.rows) |-> [c \in LongCols |-> t.rows[i][c]]]]

Reshape(t) == SelectLong(Concat(t))

(***************************************************************************)
(* clean.                                                                  *)
(***************************************************************************)
\* lines 89-90 on one column: astype(str), remove ',', to_numeric(coerce)
CleanColumn(cells) ==
    Unify([i \in DOMAIN cells |-> ToNumericCell(RemoveCommas(AsTypeStr(cells[i])))])

\* .astype(int) raises on NaN
AsTypeIntRaises(cells) == \E i \in DOMAIN cells : IsNull(cells[i])

\* .astype(int) on a column of numbers (integer-valued here)
AsTypeInt(cells) ==
    [i \in DOMAIN cells |-> IF cells[i].k = "float" THEN IntCell(cells[i].n \div cells[i].d)
                            ELSE cells[i]]

CleanRaises(t) == AsTypeIntRaises(CleanColumn(Column(t, Year)))

Clean(t) ==
    FromColumns(t.cols, Len(t.rows),
                [c \in t.cols |->
                    IF c \in {Region, Province} THEN Column(t, c)
                    ELSE IF c = Year THEN AsTypeInt(CleanColumn(Column(t, c)))
                    ELSE CleanColumn(Column(t, c))])
(***************************************************************************)
(* interpolate.                                                            *)
(***************************************************************************)
\* the characters of identifier texts, in code point order
IdChars == <<"1", "2", "A", "B", "P">>

Ord(c) == CHOOSE i \in 1..Len(IdChars) : IdChars[i] = c

\* a < b for texts, as Python compares str
RECURSIVE TextLess(_, _)
TextLess(a, b) ==
    IF b = <<>> THEN FALSE
    ELSE IF a = <<>> THEN TRUE
    ELSE IF a[1] # b[1] THEN Ord(a[1]) < Ord(b[1])
    ELSE TextLess(Tail(a), Tail(b))

Front(s) == SubSeq(s, 1, Len(s) - 1)
Last(s) == s[Len(s)]

\* df[['Region', 'Province']].drop_duplicates(): the pairs in the order of their
\* first row
RECURSIVE DropDuplicates(_)
DropDuplicates(rows) ==
    IF rows = <<>> THEN <<>>
    ELSE LET init == DropDuplicates(Front(rows))
             last == [c \in {Region, Province} |-> Last(rows)[c]]
         IN IF last \in Range(init) THEN init ELSE Append(init, last)

\* complete_index: for each pair, for each year of range(2015, 2026)
CompleteIndex(pairs) ==
    Strict([j \in 1..(Len(pairs) * Len(GridYears)) |->
              LET p == pairs[((j - 1) \div Len(GridYears)) + 1]
              IN [c \in {Region, Province, Year} |->
                    IF c = Year THEN IntCell(GridYears[((j - 1) % Len(GridYears)) + 1])
                    ELSE p[c]]])

SameKey(a, b) == \A c \in {Region, Province, Year} : a[c] = b[c]

\* the rows of the left merge for the grid rows 1..j: each grid row, in grid
\* order, once per row of the long table with its key (in the long table's
\* order), or once with NaN metrics when there is none
RECURSIVE MergeRows(_, _, _)
MergeRows(grid, rows, j) ==
    IF j = 0 THEN <<>>
    ELSE LET g == grid[j]
             hits == SelectSeq(rows, LAMBDA r : SameKey(g, r))
             blank == [c \in LongCols |-> IF c \in DOMAIN g THEN g[c] ELSE NaN]
         IN MergeRows(grid, rows, j - 1) \o (IF hits = <<>> THEN <<blank>> ELSE hits)

\* complete_df.merge(df_processed, on=['Region', 'Province', 'Year'], how='left');
\* a metric column that got a NaN is float64
MergeLeft(grid, t) ==
    LET rows == MergeRows(grid, t.rows, Len(grid))
    IN FromColumns(LongCols, Len(rows),
                   [c \in LongCols |->
                       IF c \in {Region, Province, Year} THEN [i \in 1..Len(rows) |-> rows[i][c]]
                       ELSE Unify([i \in 1..Len(rows) |-> rows[i][c]])])

\* the sort key (Province, Year) of row a is below that of row b
KeyLess(a, b) ==
    IF a[Province] = b[Province] THEN a[Year].n < b[Year].n
    ELSE TextLess(a[Province].s, b[Province].s)

\* r put into the sorted rows behind every row whose key is not above its own
RECURSIVE InsertSorted(_, _)
InsertSorted(sorted, r) ==
    IF sorted = <<>> THEN <<r>>
    ELSE IF ~KeyLess(r, Last(sorted)) THEN Append(sorted, r)
    ELSE Append(InsertSorted(Front(sorted), r), Last(sorted))

\* a sort_values that leaves the rows in the order of the merge
SortValuesMergeOrder(rows) == rows

\* sort_values(['Province', 'Year']).reset_index(drop=True): a stable sort (rows
\* with equal keys keep their order)
RECURSIVE SortValues(_)
SortValues(rows) ==
    IF rows = <<>> THEN <<>>
    ELSE InsertSorted(SortValues(Front(rows)), Last(rows))

\* a fill that writes the first known value of the group into every cell
InterpolateHoldFirst(x) ==
    LET valid == {i \in DOMAIN x : ~IsNull(x[i])}
        first == CHOOSE i \in valid : \A j \in valid : i <= j
    IN IF valid = {} THEN x
       ELSE Strict([i \in DOMAIN x |-> x[first]])

\* x.interpolate(method='linear', limit_direction='both') on one group: numpy's
\* np.interp over the positions 1..Len(x) of the group.  A NaN between two
\* known values lies on the line through the nearest known positions; a NaN
\* before the first or after the last known value gets that value; a group with
\* no known value is returned as it is
InterpolateLinear(x) ==
    LET valid == {i \in DOMAIN x : ~IsNull(x[i])}
        first == CHOOSE i \in valid : \A j \in valid : i <= j
        last == CHOOSE i \in valid : \A j \in valid : j <= i
        at(i) ==
            IF i < first THEN x[first]
            ELSE IF i > last THEN x[last]
            ELSE LET lo == CHOOSE j \in valid : j < i /\ \A h \in valid : h < i => h <= j
                     hi == CHOOSE j \in valid : j > i /\ \A h \in valid : h > i => j <= h
                     a == x[lo]
                     b == x[hi]
                 IN Float(a.n * b.d * (hi - lo) + (i - lo) * (b.n * a.d - a.n * b.d),
                          a.d * b.d * (hi - lo))
    IN IF valid = {} THEN x
       ELSE Strict([i \in DOMAIN x |-> IF i \in valid THEN x[i] ELSE at(i)])

\* the second call, with fill_value='extrapolate': method='linear' never reads
\* fill_value, so it is the same np.interp fill
InterpolateExtrapolate(x) == InterpolateLinear(x)

\* df.groupby('Province'): the rows are split by their Province value alone.
\* For each key the positions of its rows, in row order
GroupBy(rows) ==
    LET n == Len(rows)
        all == Strict([i \in 1..n |-> i])
    IN Strict([p \in {rows[i][Province] : i \in 1..n} |->
                  SelectSeq(all, LAMBDA i : rows[i][Province] = p)])

\* the cells of the group of key p, in row order
GroupCells(groups, cells, p) ==
    Strict([k \in 1..Len(groups[p]) |-> cells[groups[p][k]]])

\* transform puts each group's result back at the rows the group came from
Ungroup(groups, rows, out) ==
    Strict([i \in 1..Len(rows) |->
              LET p == rows[i][Province]
              IN out[p][CHOOSE k \in 1..Len(groups[p]) : groups[p][k] = i]])

\* lines 164-166: groupby('Province')[col].transform of the first interpolate
TransformLinear(groups, rows, cells) ==
    Ungroup(groups, rows,
            Strict([p \in DOMAIN groups |-> InterpolateLinear(GroupCells(groups, cells, p))]))

\* lines 169-171: groupby('Province')[col].transform of the second interpolate
TransformExtrapolate(groups, rows, cells) ==
    Ungroup(groups, rows,
            Strict([p \in DOMAIN groups |-> InterpolateExtrapolate(GroupCells(groups, cells, p))]))

\* a fill without the groupby: one series over all rows of the table
FillColumnUngrouped(groups, rows, cells) ==
    InterpolateExtrapolate(InterpolateLinear(cells))

\* lines 162-171 on one metric column
FillColumn(groups, rows, cells) ==
    TransformExtrapolate(groups, rows, TransformLinear(groups, rows, cells))

\* pd.DataFrame([]) has no columns, so the merge on Region raises KeyError when
\* the long table has no row
InterpolateRaises(t) == DropDuplicates(t.rows) = <<>>

Interpolate(t) ==
    LET merged == MergeLeft(CompleteIndex(DropDuplicates(t.rows)), t)
        sorted == SortValues(merged.rows)
        groups == GroupBy(sorted)
    IN FromColumns(LongCols, Len(sorted),
                   [c \in LongCols |->
                       IF c \in {Region, Province, Year} THEN [i \in 1..Len(sorted) |-> sorted[i][c]]
                       ELSE FillColumn(groups, sorted, Strict([i \in 1..Len(sorted) |-> sorted[i][c]]))])

(***************************************************************************)
(* The source files the model runs on.                                     *)
(***************************************************************************)
\* the (Region, Province) pairs of the source rows: two provinces, and one
\* province name under two regions
Pairs == { <<<<"A">>, <<"P", "1">>>>, <<<<"B">>, <<"P", "1">>>>, <<<<"A">>, <<"P", "2">>>> }

\* the fields of one metric for 2018, 2021, 2023
Gap == << <<"1", "0">>, <<>>, <<"2", "0">> >>
Commas == << <<"1", ",", "0", "0", "0">>, <<"1", ",", "2", "0", "0">>, <<"1", ",", "5", "0", "0">> >>
Single == << <<>>, <<"5">>, <<>> >>
Unparsed == << <<"x">>, <<>>, <<>> >>
Falling == << <<"2", "0">>, <<"1", "0">>, <<"x">> >>
Rising == << <<"3">>, <<"4">>, <<"6">> >>
Empty == << <<>>, <<>>, <<>> >>
OneBad == << <<"7">>, <<"x">>, <<>> >>

\* the metric fields of a source row: the series of the three metrics
RowContents ==
    { <<Gap, Rising, OneBad>>,
      <<Commas, Empty, OneBad>>,
      <<Single, Rising, Empty>>,
      <<Unparsed, Empty, Rising>>,
      <<Falling, Rising, OneBad>>,
      <<Gap, Empty, Single>> }

YearIndex(y) == CHOOSE k \in 1..Len(ObsYears) : ObsYears[k] = y

MetricIndex(m) == CHOOSE k \in 1..Len(Metrics) : Metrics[k] = m

\* a row of the wide file
WideRow(pair, series) ==
    [c \in WideCols |->
        IF c = Region THEN pair[1]
        ELSE IF c = Province THEN pair[2]
        ELSE series[MetricIndex(c.name)][YearIndex(c.year)]]

WideRows == {WideRow(p, s) : p \in Pairs, s \in RowContents}

\* two rows of the wide file, for the runs that end early
FewRows ==
    {WideRow(<<<<"A">>, <<"P", "1">>>>, <<Gap, Rising, OneBad>>),
     WideRow(<<<<"A">>, <<"P", "2">>>>, <<Commas, Empty, OneBad>>)}

SeqsUpTo(S, n) == UNION {[1..k -> S] : k \in 0..n}

\* the sets of columns a malformed file lacks
AbsentChoices ==
    { {Region}, {Province},
      {Col(Metrics[1], 2021)},
      {Col(Metrics[3], y) : y \in ObsYearSet} }

\* a file with the columns cols and the given rows
FileOf(exists, outdir, cols, rows) ==
    [exists |-> exists, outdir |-> outdir, cols |-> cols,
     rows |-> [i \in 1..Len(rows) |-> [c \in cols |-> rows[i][c]]]]

Files ==
    {FileOf(FALSE, TRUE, {}, <<>>)}
    \cup {FileOf(TRUE, TRUE, WideCols, rows) : rows \in SeqsUpTo(WideRows, MaxRows)}
    \cup {FileOf(TRUE, TRUE, WideCols \ a, rows) :
             a \in AbsentChoices, rows \in SeqsUpTo(FewRows, MaxRows)}
    \cup {FileOf(TRUE, FALSE, WideCols, rows) : rows \in SeqsUpTo(FewRows, MaxRows)}

(***************************************************************************)
(* The run of __main__.                                                    *)
(***************************************************************************)
NoOutput == [written |-> FALSE, table |-> NoTable]

Init ==
    /\ file \in Files
    /\ pc = "start"
    /\ df = NoTable
    /\ df_processed = NoTable
    /\ output = NoOutput
    /\ done = <<>>
    /\ failedAt = "none"

\* the position of the chain after method m
After(m) ==
    CASE m = "load_csv" -> "loaded"
      [] m = "reshape" -> "reshaped"
      [] m = "clean" -> "cleaned"
      [] m = "explore" -> "explored"
      [] m = "interpolate" -> "interpolated"
      [] m = "save_csv" -> "saved"

\* an exception of method m that is caught and dropped: the chain goes on
RaiseAndGoOn(m) ==
    /\ pc' = After(m)
    /\ failedAt' = m
    /\ UNCHANGED <<file, output, done>>

\* an exception leaves method m: nothing catches it, the chained calls after m
\* never run and the process exits
Raise(m) ==
    /\ pc' = "failed"
    /\ failedAt' = m
    /\ UNCHANGED <<file, output, done>>

\* method m returns self and the chain goes on at position next
Return(m, next) ==
    /\ pc' = next
    /\ done' = Append(done, m)
    /\ UNCHANGED <<file, failedAt>>

LoadCsv ==
    /\ pc = "start"
    /\ IF ~file.exists
       THEN Raise("load_csv") /\ UNCHANGED <<df, df_processed>>
       ELSE /\ df' = ReadCsv(file)
            /\ Return("load_csv", "loaded")
            /\ UNCHANGED <<df_processed, output>>

ReshapeStep ==
    /\ pc = "loaded"
    /\ IF SubsetRaises(df)
       THEN Raise("reshape") /\ UNCHANGED <<df, df_processed>>
       ELSE IF SelectRaises(df)
       THEN Raise("reshape") /\ df_processed' = Concat(df) /\ UNCHANGED df
       ELSE /\ df_processed' = Reshape(df)
            /\ Return("reshape", "reshaped")
            /\ UNCHANGED <<df, output>>

CleanStep ==
    /\ pc = "reshaped"
    /\ IF CleanRaises(df_processed)
       THEN Raise("clean") /\ UNCHANGED <<df, df_processed>>
       ELSE /\ df_processed' = Clean(df_processed)
            /\ Return("clean", "cleaned")
            /\ UNCHANGED <<df, output>>

\* explore only prints
Explore ==
    /\ pc = "cleaned"
    /\ Return("explore", "explored")
    /\ UNCHANGED <<df, df_processed, output>>

InterpolateStep ==
    /\ pc = "explored"
    /\ IF InterpolateRaises(df_processed)
       THEN Raise("interpolate") /\ UNCHANGED <<df, df_processed>>
       ELSE /\ df_processed' = Interpolate(df_processed)
            /\ Return("interpolate", "interpolated")
            /\ UNCHANGED <<df, output>>

\* to_csv cannot open the file when the processed-data directory is missing
SaveCsv ==
    /\ pc = "interpolated"
    /\ IF ~file.outdir
       THEN Raise("save_csv") /\ UNCHANGED <<df, df_processed>>
       ELSE /\ output' = [written |-> TRUE, table |-> df_processed]
            /\ Return("save_csv", "saved")
            /\ UNCHANGED <<df, df_processed>>

Next ==
    \/ LoadCsv
    \/ ReshapeStep
    \/ CleanStep
    \/ Explore
    \/ InterpolateStep
    \/ SaveCsv

Spec == Init /\ [][Next]_vars
(***************************************************************************)
(* What the claims speak about.                                            *)
(***************************************************************************)
\* interpolate has returned: df_processed is the processed table
Filled == pc \in {"interpolated", "saved"}

MetricCols == {Col(m, 0) : m \in MetricSet}

\* the known (non-null) values of metric column c that the long table obs holds
\* for Province p at year y
KnownAt(obs, p, c, y) ==
    {r[c] : r \in {o \in Range(obs.rows) :
                      o[Province] = p /\ o[Year].n = y /\ ~IsNull(o[c])}}

\* the years at which Province p has a known value of c
KnownYears(obs, p, c) == {y \in ObsYearSet : KnownAt(obs, p, c, y) # {}}

\* the number of known values of c that obs holds for Province p
KnownCount(obs, p, c) ==
    Cardinality({i \in 1..Len(obs.rows) :
                    obs.rows[i][Province] = p /\ ~IsNull(obs.rows[i][c])})

MaxOf(S) == CHOOSE x \in S : \A y \in S : y <= x
MinOf(S) == CHOOSE x \in S : \A y \in S : x <= y

\* cell v is the number on the line through (ya, a) and (yb, b) at year y:
\* a + (y - ya) * (b - a) / (yb - ya)
OnLine(v, a, ya, b, yb, y) ==
    /\ IsNum(v)
    /\ v.n * (a.d * b.d * (yb - ya))
         = v.d * (a.n * b.d * (yb - ya) + (y - ya) * (b.n * a.d - a.n * b.d))

\* the (Region, Province) pairs of the source
SourcePairs == {<<r[Region], r[Province]>> : r \in Range(df.rows)}

\* C1: after load_csv, reshape, clean and interpolate the processed table holds
\* exactly one row for every (Region, Province) pair of the source and every
\* year 2015..2025, and no other row: 11 rows per pair, every Year an integer
\* of the range
C1_GridCompleteUnique ==
    Filled =>
        LET t == df_processed.rows
        IN /\ Len(t) = 11 * Cardinality(SourcePairs)
           /\ \A p \in SourcePairs : \A y \in 2015..2025 :
                 Cardinality({i \in 1..Len(t) :
                     t[i][Region] = p[1] /\ t[i][Province] = p[2] /\ t[i][Year] = IntCell(y)}) = 1
           /\ \A i \in 1..Len(t) :
                 /\ t[i][Year].k = "int" /\ t[i][Year].n \in 2015..2025
                 /\ <<t[i][Region], t[i][Province]>> \in SourcePairs

\* C2: a grid year of a Province with no known value, and with a known value
\* at an earlier and at a later year, is filled with the value on the line
\* through the nearest known point on each side, in Year order
C2_InteriorLinear ==
    Filled =>
        LET obs == Clean(Reshape(df))
        IN \A i \in 1..Len(df_processed.rows) : \A c \in MetricCols :
            LET r == df_processed.rows[i]
                p == r[Province]
                y == r[Year].n
                before == {k \in KnownYears(obs, p, c) : k < y}
                after == {k \in KnownYears(obs, p, c) : k > y}
            IN (KnownAt(obs, p, c, y) = {} /\ before # {} /\ after # {}) =>
                  \E a \in KnownAt(obs, p, c, MaxOf(before)) :
                      \E b \in KnownAt(obs, p, c, MinOf(after)) :
                          OnLine(r[c], a, MaxOf(before), b, MinOf(after), y)

\* C3: for a Province and metric with at least two known points, the years
\* before the first known year and after the last known year are filled by
\* linear extrapolation: the line through the two nearest known points,
\* continued outward
C3_BoundaryExtrapolated ==
    Filled =>
        LET obs == Clean(Reshape(df))
        IN \A i \in 1..Len(df_processed.rows) : \A c \in MetricCols :
            LET r == df_processed.rows[i]
                p == r[Province]
                y == r[Year].n
                ky == KnownYears(obs, p, c)
                y1 == MinOf(ky)
                y2 == MinOf(ky \ {y1})
                z1 == MaxOf(ky)
                z2 == MaxOf(ky \ {z1})
            IN Cardinality(ky) >= 2 =>
                  /\ y < y1 =>
                        \E a \in KnownAt(obs, p, c, y1) : \E b \in KnownAt(obs, p, c, y2) :
                            OnLine(r[c], a, y1, b, y2, y)
                  /\ y > z1 =>
                        \E a \in KnownAt(obs, p, c, z2) : \E b \in KnownAt(obs, p, c, z1) :
                            OnLine(r[c], a, z2, b, z1, y)

\* C4: when a Province has exactly one known point for a metric, every grid
\* year of that Province without an observation stays null after the fill
C4_SinglePointStaysNull ==
    Filled =>
        LET obs == Clean(Reshape(df))
        IN \A i \in 1..Len(df_processed.rows) : \A c \in MetricCols :
            LET r == df_processed.rows[i]
                p == r[Province]
            IN (KnownCount(obs, p, c) = 1 /\ KnownAt(obs, p, c, r[Year].n) = {})
                  => IsNull(r[c])

\* two cells hold the same value: the same text, both null, or the same number
\* (an int and the float of the same value are the same number)
SameValue(a, b) ==
    \/ a.k = "str" /\ b = a
    \/ IsNull(a) /\ IsNull(b)
    \/ IsNum(a) /\ IsNum(b) /\ a.n * b.d = b.n * a.d

\* the long row reshape owes source row i for year y: the source row's Region
\* and Province, the integer y, and each metric from the column of that year
\* (null when the file has no such column)
OwedRow(i, y) ==
    [c \in LongCols |->
        IF c \in {Region, Province} THEN df.rows[i][c]
        ELSE IF c = Year THEN IntCell(y)
        ELSE IF Col(c.name, y) \in df.cols THEN df.rows[i][Col(c.name, y)]
        ELSE NaN]

SameRow(a, b) == /\ a[Year] = b[Year]
                 /\ \A c \in LongCols \ {Year} : SameValue(a[c], b[c])

\* C5: reshape turns a wide table of n rows into a long table of exactly
\* n * 3 rows, one per source row and year 2018, 2021, 2023 (repeated source
\* rows counted as often as they occur), each with the source row's Region and
\* Province, the integer Year and the metric values of that year's columns
C5_ReshapeRowCount ==
    pc = "reshaped" =>
        LET n == Len(df.rows)
            t == df_processed.rows
            owed == {<<i, y>> : i \in 1..n, y \in {2018, 2021, 2023}}
        IN /\ Len(t) = n * 3
           /\ df_processed.cols = LongCols
           /\ \A e \in owed :
                 Cardinality({j \in 1..Len(t) : SameRow(t[j], OwedRow(e[1], e[2]))})
                   = Cardinality({f \in owed : SameRow(OwedRow(f[1], f[2]), OwedRow(e[1], e[2]))})

\* reshape ran on a source with a repeated Province row
C5_Witness ==
    /\ pc = "reshaped"
    /\ Len(df.rows) = 2
    /\ df.rows[1][Province] = df.rows[2][Province]
    /\ Len(df_processed.rows) = 6

\* the text of the field of source row i in the column of metric c for year y
\* ("" when the file has no such column)
FieldText(i, c, y) ==
    IF Col(c.name, y) \in file.cols THEN file.rows[i][Col(c.name, y)] ELSE <<>>

\* cell v is what the claim makes of the text s: the number s denotes once
\* every ',' is removed, null when that is no number
ParsedFrom(v, s) ==
    LET bare == SelectSeq(s, LAMBDA ch : ch # ",")
    IN IF AllDigits(bare) THEN IsNum(v) /\ v.n = DigitsValue(bare) * v.d
       ELSE IsNull(v)

\* C6: clean never stops the run; every metric cell of the cleaned table is the
\* number its field denotes with all ',' removed, or null when that does not
\* parse; Region, Province, the row count and the integer Year are unchanged
C6_CleanCoerces ==
    /\ failedAt # "clean"
    /\ pc = "cleaned" =>
          LET n == Len(df.rows)
              long == Reshape(df)
              t == df_processed.rows
          IN /\ Len(t) = Len(long.rows)
             /\ \A j \in 1..Len(t) :
                   /\ t[j][Region] = long.rows[j][Region]
                   /\ t[j][Province] = long.rows[j][Province]
                   /\ t[j][Year] = long.rows[j][Year]
                   /\ t[j][Year].k = "int"
                   /\ \A c \in MetricCols :
                         ParsedFrom(t[j][c], FieldText(((j - 1) % n) + 1, c, t[j][Year].n))

\* clean ran on a table with a field with ',', one that does not parse and an
\* empty one
C6_Witness ==
    /\ pc = "cleaned"
    /\ \E i \in 1..Len(file.rows) : \E c \in MetricCols :
          /\ \E k \in 1..Len(FieldText(i, c, 2018)) : FieldText(i, c, 2018)[k] = ","
          /\ df_processed.rows[i][c] = Float(1000, 1)
    /\ \E i \in 1..Len(file.rows) : \E c \in MetricCols :
          FieldText(i, c, 2018) = <<"x">> /\ IsNull(df_processed.rows[i][c])

\* C7: clean applied to a table that clean produced gives the same table, cell
\* for cell
C7_CleanIdempotent ==
    pc = "cleaned" =>
        /\ ~CleanRaises(df_processed)
        /\ Clean(df_processed) = df_processed

\* a cleaned table with a float, a null and an int column
C7_Witness ==
    /\ pc = "cleaned"
    /\ \E j \in 1..Len(df_processed.rows) :
          /\ df_processed.rows[j][Col(Metrics[1], 0)].k = "float"
          /\ IsNull(df_processed.rows[j][Col(Metrics[3], 0)])
          /\ df_processed.rows[j][Col(Metrics[2], 0)].k = "int"

Stages == <<"load_csv", "reshape", "clean", "explore", "interpolate", "save_csv">>

\* C8: the output file is written only by save_csv after every earlier stage
\* has returned; in a run where a stage raised, nothing is written, and no
\* stage after the failed one has run
C8_SaveOnlyAfterAll ==
    /\ output.written => (done = Stages /\ failedAt = "none")
    /\ failedAt # "none" =>
          /\ ~output.written
          /\ pc = "failed"
          /\ \E k \in 1..Len(Stages) : Stages[k] = failedAt /\ done = SubSeq(Stages, 1, k - 1)

\* a run that failed late, in interpolate, and wrote nothing
C8_Witness == failedAt = "interpolate" /\ Len(done) = 4 /\ ~output.written

\* reshape has been entered with the loaded table df
ReshapeEntered == failedAt # "load_csv" /\ pc \notin {"start", "loaded"}

\* C9 as stated: when Region, Province or any of the nine year-tagged metric
\* columns is absent, reshape aborts the run
C9_AnyAbsentColumnFatal ==
    (ReshapeEntered /\ ~(WideCols \subseteq df.cols)) => failedAt = "reshape"

\* the metrics none of whose three year columns is in the file
LostMetrics == {m \in MetricSet : \A y \in {2018, 2021, 2023} : Col(m, y) \notin df.cols}

\* C9 amended: reshape aborts the run, and no later stage runs, exactly when
\* Region or Province is absent or a metric is absent for all three years;
\* when a metric column is absent for some of the years only, reshape returns
\* and the long rows of those years hold null in that metric
C9_AbsentColumns ==
    ReshapeEntered =>
        IF Region \notin df.cols \/ Province \notin df.cols \/ LostMetrics # {}
        THEN pc = "failed" /\ failedAt = "reshape" /\ done = <<"load_csv">> /\ ~output.written
        ELSE /\ failedAt # "reshape"
             /\ Len(done) >= 2 /\ done[2] = "reshape"
             /\ pc = "reshaped" =>
                   \A j \in 1..Len(df_processed.rows) : \A c \in MetricCols :
                       Col(c.name, df_processed.rows[j][Year].n) \notin df.cols
                           => IsNull(df_processed.rows[j][c])

\* reshape aborted on a file without its Region column
C9_Witness == failedAt = "reshape" /\ Region \notin df.cols /\ Len(df.rows) > 0

\* the metric columns in which the long table obs has no known value for
\* Province p
Unknown(obs, p) == {c \in MetricCols : KnownCount(obs, p, c) = 0}

\* C10: a Province without any known value of a metric keeps null in that
\* metric column in every one of its rows, whatever its other metrics hold
C10_NoKnownStaysNull ==
    Filled =>
        LET obs == Clean(Reshape(df))
        IN \A j \in 1..Len(df_processed.rows) :
              \A c \in Unknown(obs, df_processed.rows[j][Province]) :
                  IsNull(df_processed.rows[j][c])

\* a Province whose rows are all null in one metric and all filled in another,
\* beside a Province that has values in the first
C10_Witness ==
    /\ Filled
    /\ \E c \in MetricCols : \E e \in MetricCols : \E p \in {<<"P", "1">>, <<"P", "2">>} :
          /\ \E j \in 1..Len(df_processed.rows) : df_processed.rows[j][Province].s = p
          /\ \A j \in 1..Len(df_processed.rows) :
                df_processed.rows[j][Province].s = p =>
                    IsNull(df_processed.rows[j][c]) /\ IsNum(df_processed.rows[j][e])
          /\ \E j \in 1..Len(df_processed.rows) :
                df_processed.rows[j][Province].s # p /\ IsNum(df_processed.rows[j][c])

\* the merged grid in the order interpolate fills it: lines 149-156 applied to
\* the cleaned long table
SortedGrid ==
    LET obs == Clean(Reshape(df))
    IN SortValues(MergeLeft(CompleteIndex(DropDuplicates(obs.rows)), obs).rows)

\* the Years of the rows a Province group hands to the fill, in the order the
\* fill reads them
GroupYears(groups, rows, p) == [k \in 1..Len(groups[p]) |-> rows[groups[p][k]][Year].n]

\* C11: the table interpolate produces is ordered by (Province ascending, Year
\* ascending): of two consecutive rows the first has the smaller Province, or
\* the same Province and a Year that is not greater; the fill runs on this
\* order, so each Province group is read in Year order
C11_SortedByProvinceYear ==
    Filled =>
        LET t == df_processed.rows
            sorted == SortedGrid
            groups == GroupBy(sorted)
        IN /\ \A i \in 1..(Len(t) - 1) :
                 \/ TextLess(t[i][Province].s, t[i + 1][Province].s)
                 \/ /\ t[i][Province] = t[i + 1][Province]
                    /\ t[i][Year].n <= t[i + 1][Year].n
           /\ Len(sorted) = Len(t)
           /\ \A i \in 1..Len(t) : \A c \in {Region, Province, Year} : sorted[i][c] = t[i][c]
           /\ \A p \in DOMAIN groups :
                 \A k \in 1..(Len(groups[p]) - 1) :
                     GroupYears(groups, sorted, p)[k] <= GroupYears(groups, sorted, p)[k + 1]

\* interpolate ran on a source that lists Province P2 before Province P1, and
\* the processed table starts with P1
C11_Witness ==
    /\ Filled
    /\ Len(df.rows) = 2
    /\ df.rows[1][Province].s = <<"P", "2">>
    /\ df.rows[2][Province].s = <<"P", "1">>
    /\ df_processed.rows[1][Province].s = <<"P", "1">>
    /\ df_processed.rows[12][Province].s = <<"P", "2">>

\* C12: reshape keeps the order of accumulation: the rows of 2018 first, then
\* those of 2021, then those of 2023, and in each year block the rows in the
\* order of the wide source rows: output row i + k * n is source row i for the
\* k-th year (k = 0, 1, 2), n being the number of source rows
C12_AccumulationOrder ==
    pc = "reshaped" =>
        LET n == Len(df.rows)
            t == df_processed.rows
        IN /\ Len(t) = 3 * n
           /\ \A k \in 0..2 : \A i \in 1..n :
                 SameRow(t[i + k * n], OwedRow(i, ObsYears[k + 1]))

\* reshape ran on two source rows of different Provinces: output rows 1, 3, 5
\* are the first source row at 2018, 2021, 2023
C12_Witness ==
    /\ pc = "reshaped"
    /\ Len(df.rows) = 2
    /\ df.rows[1][Province] # df.rows[2][Province]
    /\ \A k \in 0..2 :
          /\ df_processed.rows[1 + k * 2][Province] = df.rows[1][Province]
          /\ df_processed.rows[1 + k * 2][Year] = IntCell(ObsYears[k + 1])
          /\ df_processed.rows[2 + k * 2][Province] = df.rows[2][Province]

\* C13: every observed value survives the grid join and the fill: for every
\* row of the cleaned long table and every metric in which it holds a non-null
\* value v, a row of the processed table with the same (Region, Province, Year)
\* holds exactly v in that metric, at least as often as the long table does;
\* the fill writes only cells that were null in the merged grid
C13_ObservedSurvive ==
    Filled =>
        LET obs == Clean(Reshape(df)).rows
            t == df_processed.rows
            sorted == SortedGrid
        IN /\ \A j \in 1..Len(obs) : \A c \in MetricCols :
                 ~IsNull(obs[j][c]) =>
                     Cardinality({i \in 1..Len(t) :
                         SameKey(t[i], obs[j]) /\ SameValue(t[i][c], obs[j][c])})
                       >= Cardinality({h \in 1..Len(obs) :
                         SameKey(obs[h], obs[j]) /\ SameValue(obs[h][c], obs[j][c])})
           /\ Len(t) = Len(sorted)
           /\ \A i \in 1..Len(t) : \A c \in MetricCols :
                 ~IsNull(sorted[i][c]) => SameValue(t[i][c], sorted[i][c])

\* interpolate ran on a Province observed at 3, 4, 6: the three values stand at
\* 2018, 2021, 2023 and the years between them are filled
C13_Witness ==
    /\ Filled
    /\ \E c \in MetricCols : \E p \in {<<"P", "1">>, <<"P", "2">>} :
          LET at(y) == {r[c] : r \in {o \in Range(df_processed.rows) :
                                        o[Province].s = p /\ o[Year].n = y}}
          IN /\ at(2018) = {Float(3, 1)}
             /\ at(2021) = {Float(4, 1)}
             /\ at(2023) = {Float(6, 1)}
             /\ at(2022) = {Float(5, 1)}
             /\ \A y \in 2019..2020 : \A v \in at(y) : IsNum(v) /\ v # Float(3, 1)

\* the source file with the metric fields of every row of a pair other than
\* (region, province) replaced by series
OthersReplaced(region, province, series) ==
    [file EXCEPT !.rows =
        [i \in 1..Len(file.rows) |->
            IF file.rows[i][Region] = region /\ file.rows[i][Province] = province
            THEN file.rows[i]
            ELSE [c \in file.cols |->
                    WideRow(<<file.rows[i][Region], file.rows[i][Province]>>, series)[c]]]]

\* what the stages load_csv .. interpolate make of the file f
Processed(f) == Interpolate(Clean(Reshape(ReadCsv(f))))

\* C14: the fill is isolated per grid key: the value interpolate writes into a
\* cell of key (Region, Province) is the same whatever the rows of the other
\* (Region, Province) pairs of the source hold, also when a Province name
\* occurs under two Regions
C14_FillIsolated ==
    Filled =>
        \A p \in SourcePairs : \A series \in RowContents :
            LET other == Processed(OthersReplaced(p[1].s, p[2].s, series)).rows
                t == df_processed.rows
            IN /\ Len(other) = Len(t)
               /\ \A i \in 1..Len(t) :
                     (t[i][Region] = p[1] /\ t[i][Province] = p[2]) =>
                         /\ SameKey(other[i], t[i])
                         /\ \A c \in MetricCols : SameValue(other[i][c], t[i][c])
====
